---------------------------- MODULE Spec2Model ----------------------------
(***************************************************************************)
(* A model of the EEG pipeline:                                            *)
(*   - preprocess_eeg.py : windowing of a recording, annotation alignment, *)
(*                         spectral features, command-line exit code       *)
(*   - rl_bandit.py      : the LinUCB contextual bandit                    *)
(*   - errp_feedback.py  : the online loop that rewards the bandit         *)
(*                                                                         *)
(* Units.  Times are counted in sample periods (1/sfreq), so raw.times[-1] *)
(* is n_times - 1 and the term 1/sfreq is 1.  Frequencies are counted in   *)
(* half Hertz, the resolution of the Welch estimate (n_fft = 2*sfreq).     *)
(* Powers are counted in units of 1e-9.  Real numbers are exact rationals  *)
(* [num, den]; a den of 0 is the result of a division by zero (numpy's     *)
(* inf or nan).                                                            *)
(***************************************************************************)
EXTENDS Integers, Sequences, FiniteSets, TLC

VARIABLES
    \* preprocess_eeg.py, preprocess_eeg_windowed and __main__
    pc,                     \* position of the command-line run
    file_ok,                \* whether mne.io.read_raw_fif can read the file
    n_times,                \* number of samples of the recording
    annotations,            \* raw.annotations: sequence of [onset, duration, description]
    window_duration,        \* window_duration_sec, in sample periods
    overlap_duration,       \* overlap_duration_sec, in sample periods
    stream_lsl,             \* stream_lsl and LSLWindowStreamer is importable
    lsl_streamer,           \* whether the LSLWindowStreamer was created
    window_starts,          \* window_starts_sec
    processed_windows_data, \* the list the function returns
    lsl_pushed,             \* number of windows pushed to the stream
    exit_code,              \* -1 while running, else the process exit code
    \* preprocess_eeg.py, _extract_spectral_features
    psds,                   \* the Welch estimate: channel -> frequency bin -> power
    features,               \* the returned feature dictionary
    fpc,                    \* "ready" before the call, "done" after
    \* rl_bandit.py, LinUCBBandit
    A,                      \* self.A: action -> n_features x n_features matrix
    b,                      \* self.b: action -> column vector
    alpha,                  \* self.alpha
    updates,                \* the update calls made so far, in order
    call,                   \* the last call of a method and what it returned
    \* errp_feedback.py, online_loop
    state_in,               \* the markers buffered in the EEGState inlet, oldest first
    n_pushed,               \* number of markers pushed to the EEGState stream
    consumed,               \* ids of the markers pull_sample returned, in order
    lpc,                    \* the statement online_loop is about to run
    cycle,                  \* what the current pass of the while loop has done
    \* rl_bandit.py, bandit_step run by several loops on one bandit
    lp                      \* loop -> its position in bandit_step and its locals

winVars == <<pc, file_ok, n_times, annotations, window_duration, overlap_duration,
             stream_lsl, lsl_streamer, window_starts, processed_windows_data,
             lsl_pushed, exit_code>>
featVars == <<psds, features, fpc>>
banditVars == <<A, b, alpha, updates, call>>
loopVars == <<state_in, n_pushed, consumed, lpc, cycle>>
concVars == <<lp>>
onlineVars == <<loopVars, concVars>>

----------------------------------------------------------------------------
(* Bounds of the model *)

MaxSamples == 7
MaxWindow == 3
MaxAnn == 2
MaxOnset == 3
MaxPower == 1
MaxUpdates == 2
MaxMarkers == 2

----------------------------------------------------------------------------
(* Exact rationals standing for the floats of the source *)

RECURSIVE GCD(_, _)
GCD(m, n) == IF n = 0 THEN m ELSE GCD(n, m % n)

\* the rational n/d for n, d >= 0, in lowest terms
Rat(n, d) == IF d = 0 THEN [num |-> n, den |-> 0]
             ELSE [num |-> n \div GCD(n, d), den |-> d \div GCD(n, d)]

RatAdd(p, q) == Rat(p.num * q.den + q.num * p.den, p.den * q.den)

\* p / q as numpy computes it on float64 scalars: a zero divisor does not raise,
\* it yields inf or nan, kept here as a zero denominator
RatDiv(p, q) == Rat(p.num * q.den, p.den * q.num)

RatEq(p, q) == p.num * q.den = q.num * p.den

RatIsUndefined(p) == p.den = 0

RECURSIVE RatSumSeq(_)
RatSumSeq(s) == IF s = <<>> THEN Rat(0, 1) ELSE RatAdd(Head(s), RatSumSeq(Tail(s)))

\* the sum of f over the set S of its arguments
RECURSIVE SumFn(_, _)
SumFn(f, S) == IF S = {} THEN 0
               ELSE LET x == CHOOSE y \in S : TRUE IN f[x] + SumFn(f, S \ {x})

----------------------------------------------------------------------------
(* preprocess_eeg.py: _extract_spectral_features *)

\* BANDS, in half Hertz, in the dictionary's insertion order
BandNames == <<"Delta", "Theta", "Alpha", "Sigma", "Beta">>

BANDS == [Delta |-> <<1, 8>>, Theta |-> <<8, 16>>, Alpha |-> <<16, 24>>,
          Sigma |-> <<24, 30>>, Beta |-> <<30, 60>>]

TOTAL_POWER_BAND == <<BANDS["Delta"][1], BANDS["Beta"][2]>>

\* f"abs_{band.lower()}" and f"rel_{band.lower()}"
AbsKey == [Delta |-> "abs_delta", Theta |-> "abs_theta", Alpha |-> "abs_alpha",
           Sigma |-> "abs_sigma", Beta |-> "abs_beta"]

RelKey == [Delta |-> "rel_delta", Theta |-> "rel_theta", Alpha |-> "rel_alpha",
           Sigma |-> "rel_sigma", Beta |-> "rel_beta"]

\* freqs returned by psd_array_welch: the bins with fmin <= f <= fmax
Freqs == TOTAL_POWER_BAND[1] .. TOTAL_POWER_BAND[2]

Channels == {1, 2}

\* the literal 1e-9, in power units
PowerFloor == 1

\* dict.get(key, default)
DictGet(d, key, default) == IF key \in DOMAIN d THEN d[key] ELSE default

\* np.mean(np.sum(psds[:, band_mask], axis=1)) with band_mask = (freqs >= fmin) & (freqs < fmax)
AbsBandPower(p, band) ==
    LET band_mask == {f \in Freqs : f >= BANDS[band][1] /\ f < BANDS[band][2]}
        sums == [c \in Channels |-> SumFn(p[c], band_mask)]
    IN  Rat(SumFn(sums, Channels), Cardinality(Channels))

AbsBandPowers(p) == [band \in {BandNames[i] : i \in 1..Len(BandNames)} |-> AbsBandPower(p, band)]

\* np.sum(list(abs_band_powers.values()))
TotalPower(abs) == RatSumSeq([i \in 1..Len(BandNames) |-> abs[BandNames[i]]])

AbsFeatures(abs) == [k \in {AbsKey[band] : band \in DOMAIN abs} |->
                        abs[CHOOSE band \in DOMAIN abs : AbsKey[band] = k]]

RelFeatures(abs, total) == [k \in {RelKey[band] : band \in DOMAIN abs} |->
                               RatDiv(abs[CHOOSE band \in DOMAIN abs : RelKey[band] = k], total)]

\* the two ratio entries; the key of get() is always present, so its default is not used
RatioFeatures(abs) ==
    ("ratio_alpha_delta" :> RatDiv(DictGet(abs, "Alpha", Rat(0, 1)),
                                   DictGet(abs, "Delta", Rat(PowerFloor, 1))))
    @@ ("ratio_theta_beta" :> RatDiv(DictGet(abs, "Theta", Rat(0, 1)),
                                     DictGet(abs, "Beta", Rat(PowerFloor, 1))))

\* the branch of line 64 taken whatever the total is
FeaturesFromPowers_nogate(abs) ==
    AbsFeatures(abs) @@ RelFeatures(abs, TotalPower(abs)) @@ RatioFeatures(abs)

FeaturesFromPowers(abs) ==
    LET total_power == TotalPower(abs)
    IN  IF total_power.num > 0
        THEN AbsFeatures(abs) @@ RelFeatures(abs, total_power) @@ RatioFeatures(abs)
        ELSE AbsFeatures(abs)

ExtractSpectralFeatures(p) == FeaturesFromPowers(AbsBandPowers(p))

NoFeatures == [k \in {} |-> Rat(0, 1)]

\* Welch estimates with power only in the probed bins: the low edge of every band
\* and the top edge of the estimate (which belongs to no band)
ProbeBins == {BANDS[BandNames[i]][1] : i \in 1..Len(BandNames)} \cup {TOTAL_POWER_BAND[2]}

\* channel 1 takes any level in each probed bin, channel 2 one level in all of them
PsdInputs == {[c \in Channels |-> [f \in Freqs |->
                  IF f \notin ProbeBins THEN 0 ELSE IF c = 1 THEN q[f] ELSE level]] :
                 q \in [ProbeBins -> 0..MaxPower], level \in 0..MaxPower}

ZeroPsd == [c \in Channels |-> [f \in Freqs |-> 0]]

ExtractFeatures ==
    /\ fpc = "ready"
    /\ features' = ExtractSpectralFeatures(psds)
    /\ fpc' = "done"
    /\ UNCHANGED psds

----------------------------------------------------------------------------
(* preprocess_eeg.py: preprocess_eeg_windowed and __main__ *)

\* Annotation descriptions are strings, kept as sequences of code points so that
\* Python's string order can be computed: "N" = <<78>>, "N1" = <<78, 49>>, "W" = <<87>>
Descriptions == {<<78>>, <<78, 49>>, <<87>>}

\* Python's s < t on strings
RECURSIVE StrLess(_, _)
StrLess(s, t) ==
    IF t = <<>> THEN FALSE
    ELSE IF s = <<>> THEN TRUE
    ELSE IF Head(s) # Head(t) THEN Head(s) < Head(t)
    ELSE StrLess(Tail(s), Tail(t))

\* sorted(list(S)) for a set of strings
RECURSIVE Sorted(_)
Sorted(S) ==
    IF S = {} THEN <<>>
    ELSE LET m == CHOOSE x \in S : \A y \in S \ {x} : StrLess(x, y)
         IN  <<m>> \o Sorted(S \ {m})

SeqToSet(s) == {s[i] : i \in 1..Len(s)}

\* np.arange(start, stop, step) for step > 0: ceil((stop - start) / step) values
Arange(start, stop, step) ==
    LET n == IF stop > start THEN (stop - start + step - 1) \div step ELSE 0
    IN  [k \in 1..n |-> start + (k - 1) * step]

\* the test of line 146 read with closed ends
AnnOverlaps_closed(ann, t_start, t_end) ==
    ann.onset <= t_end /\ ann.onset + ann.duration >= t_start

\* line 146: ann_start < t_end_sec and ann_end > t_start_sec
AnnOverlaps(ann, t_start, t_end) ==
    ann.onset < t_end /\ ann.onset + ann.duration > t_start

\* the loop over raw.annotations: the descriptions appended, in order
RECURSIVE AppendStages(_, _, _)
AppendStages(anns, t_start, t_end) ==
    IF anns = <<>> THEN <<>>
    ELSE (IF AnnOverlaps(Head(anns), t_start, t_end)
          THEN <<Head(anns).description>> ELSE <<>>)
         \o AppendStages(Tail(anns), t_start, t_end)

WindowStages(anns, t_start, t_end) ==
    IF Len(anns) > 0
    THEN Sorted(SeqToSet(AppendStages(anns, t_start, t_end)))
    ELSE <<>>

\* the samples of a window are not modelled, only the Welch estimate of the
\* filtered window, the same for every window of a recording: a flat signal, or one
\* with power in every probed bin
WindowPsds == {ZeroPsd,
               [c \in Channels |-> [f \in Freqs |-> IF f \in ProbeBins THEN 1 ELSE 0]]}

\* try: read_raw_fif ... except: return []
LoadRaw ==
    /\ pc = "load"
    /\ pc' = IF file_ok THEN "config" ELSE "main"
    /\ UNCHANGED <<file_ok, n_times, annotations, window_duration, overlap_duration,
                   stream_lsl, lsl_streamer, window_starts, processed_windows_data,
                   lsl_pushed, exit_code>>

\* lines 115-119: step_duration_sec <= 0 returns []
RejectConfig ==
    /\ pc = "config"
    /\ window_duration - overlap_duration <= 0
    /\ pc' = "main"
    /\ UNCHANGED <<file_ok, n_times, annotations, window_duration, overlap_duration,
                   stream_lsl, lsl_streamer, window_starts, processed_windows_data,
                   lsl_pushed, exit_code>>

\* lines 121-130: the streamer is created and the window starts are computed
StartWindows ==
    /\ pc = "config"
    /\ window_duration - overlap_duration > 0
    /\ lsl_streamer' = stream_lsl
    /\ window_starts' = Arange(0, (n_times - 1) - window_duration + 1,
                               window_duration - overlap_duration)
    /\ pc' = "loop"
    /\ UNCHANGED <<file_ok, n_times, annotations, window_duration, overlap_duration,
                   stream_lsl, processed_windows_data, lsl_pushed, exit_code>>

\* one iteration of the loop of lines 132-176: crop, stages, filters, features,
\* append, push
ProcessWindow ==
    /\ pc = "loop"
    /\ Len(processed_windows_data) < Len(window_starts)
    /\ LET t_start_sec == window_starts[Len(processed_windows_data) + 1]
           t_end_sec == t_start_sec + window_duration
       IN  /\ features' = ExtractSpectralFeatures(psds)
           /\ processed_windows_data' = Append(processed_windows_data,
                  [t_start |-> t_start_sec, t_end |-> t_end_sec,
                   stages |-> WindowStages(annotations, t_start_sec, t_end_sec),
                   features |-> features'])
    /\ lsl_pushed' = IF lsl_streamer THEN lsl_pushed + 1 ELSE lsl_pushed
    /\ fpc' = "done"
    /\ UNCHANGED <<pc, file_ok, n_times, annotations, window_duration, overlap_duration,
                   stream_lsl, lsl_streamer, window_starts, exit_code, psds>>

\* line 179: return processed_windows_data
ReturnWindows ==
    /\ pc = "loop"
    /\ Len(processed_windows_data) = Len(window_starts)
    /\ pc' = "main"
    /\ UNCHANGED <<file_ok, n_times, annotations, window_duration, overlap_duration,
                   stream_lsl, lsl_streamer, window_starts, processed_windows_data,
                   lsl_pushed, exit_code>>

\* __main__ without the sys.exit(1) of line 207
MainExit_noexit ==
    /\ pc = "main"
    /\ exit_code' = 0
    /\ pc' = "exit"
    /\ UNCHANGED <<file_ok, n_times, annotations, window_duration, overlap_duration,
                   stream_lsl, lsl_streamer, window_starts, processed_windows_data,
                   lsl_pushed>>

\* lines 198-207: sys.exit(1) when the list is empty, else the script ends normally
MainExit ==
    /\ pc = "main"
    /\ exit_code' = IF processed_windows_data # <<>> THEN 0 ELSE 1
    /\ pc' = "exit"
    /\ UNCHANGED <<file_ok, n_times, annotations, window_duration, overlap_duration,
                   stream_lsl, lsl_streamer, window_starts, processed_windows_data,
                   lsl_pushed>>

----------------------------------------------------------------------------
(* rl_bandit.py: LinUCBBandit.  Matrices are rows of rows, vectors are tuples. *)
(* The determinant and the adjugate are those of a 2 x 2 matrix, the size the *)
(* model fixes.                                                               *)

\* the constructor's arguments
n_actions == 2
n_features == 2

Actions == 0..(n_actions - 1)
Idx == 1..n_features

Eye == [i \in Idx |-> [j \in Idx |-> IF i = j THEN 1 ELSE 0]]
Zeros == [i \in Idx |-> 0]

MatAdd(M, N) == [i \in Idx |-> [j \in Idx |-> M[i][j] + N[i][j]]]
MatSub(M, N) == [i \in Idx |-> [j \in Idx |-> M[i][j] - N[i][j]]]
VecAdd(u, v) == [i \in Idx |-> u[i] + v[i]]
Scale(r, v) == [i \in Idx |-> r * v[i]]
\* x @ y.T
Outer(x, y) == [i \in Idx |-> [j \in Idx |-> x[i] * y[j]]]
Dot(u, v) == SumFn([i \in Idx |-> u[i] * v[i]], Idx)
MatVec(M, v) == [i \in Idx |-> Dot(M[i], v)]

Det(M) == M[1][1] * M[2][2] - M[1][2] * M[2][1]
\* inv(M) = Adj(M) / Det(M)
Adj(M) == <<<<M[2][2], -M[1][2]>>, <<-M[2][1], M[1][1]>>>>

\* one entry of the list p of select, for alpha >= 0: the number
\*   n/d + sqrt(q/d)
\* where theta = solve(A, b) = Adj(A) b / Det(A), so theta.T @ x = n/d, and
\* alpha * sqrt(x.T @ inv(A) @ x) = sqrt(q/d)
Score(M, v, al, x) ==
    [n |-> Dot(MatVec(Adj(M), v), x),
     q |-> al * al * Dot(x, MatVec(Adj(M), x)),
     d |-> Det(M)]

\* the sign of S - (sqrt(U2) - sqrt(U1)) for S > 0 and U2 > U1 >= 0
SignPos(S, U1, U2) ==
    LET R == U1 + U2 - S * S
    IN  IF R < 0 THEN 1
        ELSE IF 4 * U1 * U2 > R * R THEN 1
        ELSE IF 4 * U1 * U2 = R * R THEN 0
        ELSE -1

\* the sign of S + sqrt(U1) - sqrt(U2) for U1, U2 >= 0
SignSqrt(S, U1, U2) ==
    IF S >= 0 /\ U1 >= U2 THEN (IF S = 0 /\ U1 = U2 THEN 0 ELSE 1)
    ELSE IF S <= 0 /\ U1 <= U2 THEN -1
    ELSE IF S > 0 THEN SignPos(S, U1, U2)
    ELSE -SignPos(-S, U2, U1)

\* the sign of s - t for two scores with positive d, both scaled by s.d * t.d
ScoreSign(s, t) ==
    SignSqrt(s.n * t.d - t.n * s.d, s.q * s.d * t.d * t.d, t.q * t.d * s.d * s.d)

\* np.argmax, read as an argmax that keeps the last maximum
RECURSIVE ArgmaxFrom_last(_, _, _)
ArgmaxFrom_last(p, a, best) ==
    IF a \notin DOMAIN p THEN best
    ELSE ArgmaxFrom_last(p, a + 1, IF ScoreSign(p[a], p[best]) >= 0 THEN a ELSE best)

\* np.argmax: the index of the first maximum of p[0], p[1], ...
RECURSIVE ArgmaxFrom(_, _, _)
ArgmaxFrom(p, a, best) ==
    IF a \notin DOMAIN p THEN best
    ELSE ArgmaxFrom(p, a + 1, IF ScoreSign(p[a], p[best]) > 0 THEN a ELSE best)

LinAlgError == -1

\* LinUCBBandit.select: solve and inv raise LinAlgError on a singular matrix
SelectResult(AA, bb, al, x) ==
    IF \E a \in Actions : Det(AA[a]) = 0 THEN LinAlgError
    ELSE ArgmaxFrom([a \in Actions |-> Score(AA[a], bb[a], al, x)], 0, 0)

\* self.A[action] += x @ x.T, read as -=, and with one matrix shared by all actions
UpdateA_minus(AA, action, x) == [AA EXCEPT ![action] = MatSub(@, Outer(x, x))]
UpdateA_shared(AA, action, x) == [a \in DOMAIN AA |-> MatAdd(AA[a], Outer(x, x))]

\* self.A[action] += x @ x.T
UpdateA(AA, action, x) == [AA EXCEPT ![action] = MatAdd(@, Outer(x, x))]

\* self.b built as one vector shared by all actions
UpdateB_shared(bb, action, reward, x) == [a \in DOMAIN bb |-> VecAdd(bb[a], Scale(reward, x))]

\* self.b[action] += reward * x, read as an assignment
UpdateB_assign(bb, action, reward, x) == [bb EXCEPT ![action] = Scale(reward, x)]

\* self.b[action] += reward * x
UpdateB(bb, action, reward, x) == [bb EXCEPT ![action] = VecAdd(@, Scale(reward, x))]

\* contexts of the configured dimension, and rewards at the ends of [0, 1]
Contexts == {<<0, 0>>, <<1, 0>>, <<0, 1>>, <<1, 1>>, <<1, -1>>}
Rewards == {0, 1}
Alphas == {0, 1}

NoCall == [kind |-> "init", ctx |-> Zeros, action |-> 0, reward |-> 0,
           result |-> 0, repeated |-> FALSE]

\* select that overwrites b[0] with theta_0 (a solve done in place)
Select_inplace ==
    \E ctx \in Contexts :
        /\ call' = [kind |-> "select", ctx |-> ctx, action |-> 0, reward |-> 0,
                    result |-> SelectResult(A, b, alpha, ctx),
                    repeated |-> (call.kind = "select" /\ call.ctx = ctx)]
        /\ b' = [b EXCEPT ![0] = [i \in Idx |-> MatVec(Adj(A[0]), b[0])[i] \div Det(A[0])]]
        /\ UNCHANGED <<A, alpha, updates>>

\* select(ctx); repeated tells that the call before was a select of the same context
Select ==
    \E ctx \in Contexts :
        /\ call' = [kind |-> "select", ctx |-> ctx, action |-> 0, reward |-> 0,
                    result |-> SelectResult(A, b, alpha, ctx),
                    repeated |-> (call.kind = "select" /\ call.ctx = ctx)]
        /\ UNCHANGED <<A, b, alpha, updates>>

\* update(ctx, action, reward)
Update ==
    /\ Len(updates) < MaxUpdates
    /\ \E ctx \in Contexts, action \in Actions, reward \in Rewards :
        /\ A' = UpdateA(A, action, ctx)
        /\ b' = UpdateB(b, action, reward, ctx)
        /\ updates' = Append(updates, [ctx |-> ctx, action |-> action, reward |-> reward])
        /\ call' = [kind |-> "update", ctx |-> ctx, action |-> action, reward |-> reward,
                    result |-> 0, repeated |-> FALSE]
        /\ UNCHANGED alpha

\* LinUCBBandit.__init__
BanditConstructed ==
    /\ A = [a \in Actions |-> Eye]
    /\ b = [a \in Actions |-> Zeros]
    /\ updates = <<>>
    /\ call = NoCall

BanditIdle == BanditConstructed /\ alpha = 1

\* the state <<A, b>> after the update calls of us, made in order on <<AA, bb>>
RECURSIVE Replay(_, _, _)
Replay(us, AA, bb) ==
    IF us = <<>> THEN <<AA, bb>>
    ELSE Replay(Tail(us), UpdateA(AA, Head(us).action, Head(us).ctx),
                UpdateB(bb, Head(us).action, Head(us).reward, Head(us).ctx))

----------------------------------------------------------------------------
(* Contexts of any length: the shapes numpy accepts and refuses *)

\* the ValueError numpy raises for operands whose shapes do not fit
ShapeError == -2

\* x @ x.T for x = ctx.reshape(-1, 1): a Len(x) by Len(x) matrix
OuterAny(x) == [i \in 1..Len(x) |-> [j \in 1..Len(x) |-> x[i] * x[j]]]

\* whether numpy broadcasts an n x n (or n x 1) operand onto a k x k (or k x 1) array
BroadcastsTo(n, k) == n = k \/ n = 1

\* the n x n matrix M broadcast onto n_features x n_features
BroadcastMat(M, n) ==
    [i \in Idx |-> [j \in Idx |-> M[IF n = 1 THEN 1 ELSE i][IF n = 1 THEN 1 ELSE j]]]

\* the column x broadcast onto n_features x 1
BroadcastVec(x) == [i \in Idx |-> x[IF Len(x) = 1 THEN 1 ELSE i]]

\* self.A[action] += x @ x.T, for an operand that numpy accepts
UpdateAAny(AA, action, x) ==
    [AA EXCEPT ![action] = MatAdd(@, BroadcastMat(OuterAny(x), Len(x)))]

\* self.b[action] += reward * x, for an operand that numpy accepts
UpdateBAny(bb, action, reward, x) ==
    [bb EXCEPT ![action] = VecAdd(@, Scale(reward, BroadcastVec(x)))]

\* theta.T @ x is a (1, k) by (n, 1) product: numpy refuses it unless n = k
SelectResultAny(AA, bb, al, x) ==
    IF Len(x) = n_features THEN SelectResult(AA, bb, al, x) ELSE ShapeError

AnyContexts == {<<>>, <<1>>, <<1, 0>>, <<0, 1>>, <<1, 1>>, <<1, 0, 1>>}

\* select(ctx) with a context of any length
SelectAny ==
    \E ctx \in AnyContexts :
        /\ call' = [kind |-> "select", ctx |-> ctx, action |-> 0, reward |-> 0,
                    result |-> SelectResultAny(A, b, alpha, ctx), repeated |-> FALSE]
        /\ UNCHANGED <<A, b, alpha, updates>>

\* update(ctx, action, reward) with a context of any length: the in-place add of
\* line 23 raises before anything is written, or both in-place adds go through
UpdateAny ==
    /\ Len(updates) < MaxUpdates
    /\ \E ctx \in AnyContexts, action \in Actions, reward \in Rewards :
        IF BroadcastsTo(Len(ctx), n_features)
        THEN /\ A' = UpdateAAny(A, action, ctx)
             /\ b' = UpdateBAny(b, action, reward, ctx)
             /\ updates' = Append(updates, [ctx |-> ctx, action |-> action, reward |-> reward])
             /\ call' = [kind |-> "update", ctx |-> ctx, action |-> action,
                         reward |-> reward, result |-> 0, repeated |-> FALSE]
             /\ UNCHANGED alpha
        ELSE /\ call' = [kind |-> "update", ctx |-> ctx, action |-> action,
                         reward |-> reward, result |-> ShapeError, repeated |-> FALSE]
             /\ UNCHANGED <<A, b, alpha, updates>>

\* bandit_step(bandit, features, reward_fn): ctx holds the values of the feature
\* map, select runs first and its exception leaves the function
BanditStep ==
    /\ Len(updates) < MaxUpdates
    /\ \E ctx \in AnyContexts, reward \in Rewards :
        LET chosen == SelectResultAny(A, b, alpha, ctx)
        IN  IF chosen \in Actions
            THEN /\ A' = UpdateAAny(A, chosen, ctx)
                 /\ b' = UpdateBAny(b, chosen, reward, ctx)
                 /\ updates' = Append(updates, [ctx |-> ctx, action |-> chosen, reward |-> reward])
                 /\ call' = [kind |-> "bandit_step", ctx |-> ctx, action |-> chosen,
                             reward |-> reward, result |-> chosen, repeated |-> FALSE]
                 /\ UNCHANGED alpha
            ELSE /\ call' = [kind |-> "bandit_step", ctx |-> ctx, action |-> 0,
                             reward |-> 0, result |-> chosen, repeated |-> FALSE]
                 /\ UNCHANGED <<A, b, alpha, updates>>

----------------------------------------------------------------------------
(* Inputs *)

Annotation == [onset : 0..MaxOnset, duration : {0, 1, 2}, description : Descriptions]

\* mne keeps Annotations ordered by onset
AnnotationLists ==
    UNION {{s \in [1..n -> Annotation] : \A i \in 1..(n - 1) : s[i].onset <= s[i + 1].onset} :
              n \in 0..MaxAnn}

FewAnnotationLists ==
    {<<>>, <<[onset |-> 0, duration |-> 2, description |-> <<87>>],
             [onset |-> 2, duration |-> 1, description |-> <<78>>]>>}

FewConfigs == {<<6, 2, 0>>, <<7, 3, 1>>}

\* the online loop and the concurrent callers, not started
NoMarker == [id |-> 0, action |-> 0, features |-> Zeros]

NoCycle == [marker |-> NoMarker, pulled |-> 0, prob_err |-> 0, reward |-> 0,
            pulls |-> 0, scores |-> 0, updates |-> 0]

Loops == {1, 2}

NoStep == [pc |-> "off", ctx |-> Zeros, action |-> 0, reward |-> 0,
           seenA |-> Eye, seenb |-> Zeros, tmpA |-> Eye, tmpb |-> Zeros]

LoopIdle ==
    /\ state_in = <<>> /\ n_pushed = 0 /\ consumed = <<>>
    /\ lpc = "off" /\ cycle = NoCycle

ConcIdle == lp = [i \in Loops |-> NoStep]

OnlineIdle == LoopIdle /\ ConcIdle

----------------------------------------------------------------------------
(* errp_feedback.py: online_loop.  The bandit of the loop has 3 actions and 10
   features; the model keeps the loop's logic on the bandit of n_actions actions
   and n_features features defined above. *)

\* the length of the snippet: eeg_buf has 256 columns, max_samples = 256
SnippetLen == 256

\* what a marker stands for: the decision (label) the classifier published and the
\* features of the window it decided on.  pull_sample hands the sample to "_", so
\* the loop itself keeps none of this.
MarkerFeatures == {<<1, 0>>, <<0, 1>>}

\* how many fresh samples the EEGWin inlet holds when pull_chunk is called
Buffered == {0, SnippetLen - 1, SnippetLen}

\* the second softmax output of the detector, at the two ends of its range
Probs == {0, 1}

\* values np.random.randn can draw
RandomContexts == {<<1, 0>>, <<0, 1>>, <<1, -1>>}

\* realtime_classifier.py pushes one marker for each window it classifies
PushMarker ==
    /\ lpc # "off"
    /\ n_pushed < MaxMarkers
    /\ \E label \in Actions, feats \in MarkerFeatures :
          state_in' = Append(state_in, [id |-> n_pushed + 1, action |-> label,
                                        features |-> feats])
    /\ n_pushed' = n_pushed + 1
    /\ UNCHANGED <<consumed, lpc, cycle>>

\* _, ts = state_in.pull_sample(), returning the newest buffered marker
PullSample_newest ==
    /\ lpc = "pull_sample"
    /\ state_in # <<>>
    /\ cycle' = [NoCycle EXCEPT !.marker = state_in[Len(state_in)]]
    /\ consumed' = Append(consumed, state_in[Len(state_in)].id)
    /\ state_in' = SubSeq(state_in, 1, Len(state_in) - 1)
    /\ lpc' = "pull_chunk"
    /\ UNCHANGED n_pushed

\* _, ts = state_in.pull_sample(): blocks while no marker is buffered, then
\* returns the oldest one
PullSample ==
    /\ lpc = "pull_sample"
    /\ state_in # <<>>
    /\ cycle' = [NoCycle EXCEPT !.marker = Head(state_in)]
    /\ consumed' = Append(consumed, Head(state_in).id)
    /\ state_in' = Tail(state_in)
    /\ lpc' = "pull_chunk"
    /\ UNCHANGED n_pushed

\* eeg_in.pull_chunk(eeg_buf.T, max_samples=256): does not wait, writes the fresh
\* samples the inlet holds and leaves the rest of eeg_buf as it was
PullChunk ==
    /\ lpc = "pull_chunk"
    /\ \E n \in Buffered : cycle' = [cycle EXCEPT !.pulled = n, !.pulls = @ + 1]
    /\ lpc' = "score"
    /\ UNCHANGED <<state_in, n_pushed, consumed>>

\* the same call, refused by the library: pylsl declares
\* pull_chunk(timeout, max_samples, dest_obj), and the array is passed first
PullChunkRaises ==
    /\ lpc = "pull_chunk"
    /\ lpc' = "raised"
    /\ UNCHANGED <<state_in, n_pushed, consumed, cycle>>

\* prob_err = softmax(errp_net(eeg_buf))[0, 1]; reward = 1.0 - prob_err
ScoreSnippet ==
    /\ lpc = "score"
    /\ \E p \in Probs :
          cycle' = [cycle EXCEPT !.prob_err = p, !.reward = 1 - p, !.scores = @ + 1]
    /\ lpc' = "update"
    /\ UNCHANGED <<state_in, n_pushed, consumed>>

\* ctx = np.random.randn(10); bandit.update(ctx, action=0, reward=reward)
LoopUpdate ==
    /\ lpc = "update"
    /\ \E ctx \in RandomContexts :
        /\ A' = UpdateA(A, 0, ctx)
        /\ b' = UpdateB(b, 0, cycle.reward, ctx)
        /\ updates' = Append(updates, [ctx |-> ctx, action |-> 0, reward |-> cycle.reward])
        /\ call' = [kind |-> "update", ctx |-> ctx, action |-> 0,
                    reward |-> cycle.reward, result |-> 0, repeated |-> FALSE]
    /\ cycle' = [cycle EXCEPT !.updates = @ + 1]
    /\ lpc' = "pull_sample"
    /\ UNCHANGED <<alpha, state_in, n_pushed, consumed>>

----------------------------------------------------------------------------
(* rl_bandit.py: bandit_step run by two loops on one bandit.  Nothing in the
   source serialises the callers.  An in-place add on a shared array is a read of
   the array followed by a write of the sum; when the interpreter lets another
   thread run in between (numpy releases the lock on large operands, and some
   builds have no such lock), the two steps of different loops interleave, and
   when it does not they follow each other at once. *)

\* the feature maps the loops pass
StepContexts == {<<1, 0>>, <<1, 1>>}

\* ctx = np.array(list(features.values())); a = bandit.select(ctx); r = reward_fn(a)
StepSelect(i) ==
    /\ lp[i].pc = "select"
    /\ \E ctx \in StepContexts, reward \in Rewards :
        LET chosen == SelectResult(A, b, alpha, ctx)
        IN  lp' = [lp EXCEPT ![i] = [@ EXCEPT !.pc = "readA", !.ctx = ctx,
                                                !.action = chosen, !.reward = reward,
                                                !.seenA = A[chosen], !.seenb = b[chosen]]]
    /\ UNCHANGED banditVars

\* bandit.update(ctx, a, r), line 23: the operands of self.A[action] += x @ x.T are read
ReadA(i) ==
    /\ lp[i].pc = "readA"
    /\ lp' = [lp EXCEPT ![i] = [@ EXCEPT !.pc = "writeA",
                                          !.tmpA = UpdateA(A, lp[i].action, lp[i].ctx)[lp[i].action]]]
    /\ updates' = Append(updates, [ctx |-> lp[i].ctx, action |-> lp[i].action,
                                   reward |-> lp[i].reward])
    /\ UNCHANGED <<A, b, alpha, call>>

\* line 23: the sum is written to self.A[action]
WriteA(i) ==
    /\ lp[i].pc = "writeA"
    /\ A' = [A EXCEPT ![lp[i].action] = lp[i].tmpA]
    /\ lp' = [lp EXCEPT ![i] = [@ EXCEPT !.pc = "readB"]]
    /\ UNCHANGED <<b, alpha, updates, call>>

\* line 24: the operands of self.b[action] += reward * x are read
ReadB(i) ==
    /\ lp[i].pc = "readB"
    /\ lp' = [lp EXCEPT ![i] = [@ EXCEPT !.pc = "writeB",
                                          !.tmpb = UpdateB(b, lp[i].action, lp[i].reward,
                                                           lp[i].ctx)[lp[i].action]]]
    /\ UNCHANGED banditVars

\* line 24: the sum is written to self.b[action]; bandit_step returns a, r
WriteB(i) ==
    /\ lp[i].pc = "writeB"
    /\ b' = [b EXCEPT ![lp[i].action] = lp[i].tmpb]
    /\ lp' = [lp EXCEPT ![i] = [@ EXCEPT !.pc = "done"]]
    /\ call' = [kind |-> "bandit_step", ctx |-> lp[i].ctx, action |-> lp[i].action,
                reward |-> lp[i].reward, result |-> lp[i].action, repeated |-> FALSE]
    /\ UNCHANGED <<A, alpha, updates>>

WinIdle ==
    /\ pc = "exit" /\ file_ok = FALSE /\ n_times = 1 /\ annotations = <<>>
    /\ window_duration = 1 /\ overlap_duration = 0 /\ stream_lsl = FALSE
    /\ lsl_streamer = FALSE /\ window_starts = <<>> /\ processed_windows_data = <<>>
    /\ lsl_pushed = 0 /\ exit_code = 1

\* a command-line run: the arguments and the file are the inputs
InitWin ==
    /\ pc = "load"
    /\ \/ /\ file_ok \in BOOLEAN
          /\ stream_lsl \in BOOLEAN
          /\ n_times \in 1..MaxSamples
          /\ window_duration \in 1..MaxWindow
          /\ overlap_duration \in 0..MaxWindow
          /\ annotations \in FewAnnotationLists
          /\ psds \in WindowPsds
       \/ /\ file_ok = TRUE
          /\ stream_lsl = TRUE
          /\ \E c \in FewConfigs :
                n_times = c[1] /\ window_duration = c[2] /\ overlap_duration = c[3]
          /\ annotations \in AnnotationLists
          /\ psds = ZeroPsd
    /\ lsl_streamer = FALSE
    /\ window_starts = <<>>
    /\ processed_windows_data = <<>>
    /\ lsl_pushed = 0
    /\ exit_code = -1
    /\ features = NoFeatures
    /\ fpc = "ready"
    /\ BanditIdle
    /\ OnlineIdle

NextWin ==
    \/ LoadRaw /\ UNCHANGED featVars /\ UNCHANGED banditVars /\ UNCHANGED onlineVars
    \/ RejectConfig /\ UNCHANGED featVars /\ UNCHANGED banditVars /\ UNCHANGED onlineVars
    \/ StartWindows /\ UNCHANGED featVars /\ UNCHANGED banditVars /\ UNCHANGED onlineVars
    \/ ProcessWindow /\ UNCHANGED banditVars /\ UNCHANGED onlineVars
    \/ ReturnWindows /\ UNCHANGED featVars /\ UNCHANGED banditVars /\ UNCHANGED onlineVars
    \/ MainExit /\ UNCHANGED featVars /\ UNCHANGED banditVars /\ UNCHANGED onlineVars

vars == <<winVars, featVars, banditVars, loopVars, concVars>>

SpecWin == InitWin /\ [][NextWin]_vars

\* a call of _extract_spectral_features on a Welch estimate
InitFeat ==
    /\ WinIdle
    /\ psds \in PsdInputs
    /\ features = NoFeatures
    /\ fpc = "ready"
    /\ BanditIdle
    /\ OnlineIdle

NextFeat ==
    ExtractFeatures /\ UNCHANGED winVars /\ UNCHANGED banditVars /\ UNCHANGED onlineVars

SpecFeat == InitFeat /\ [][NextFeat]_vars

\* a bandit and its callers: any sequence of select and update calls
InitBandit ==
    /\ WinIdle
    /\ psds = ZeroPsd /\ features = NoFeatures /\ fpc = "done"
    /\ BanditConstructed
    /\ alpha \in Alphas
    /\ OnlineIdle

NextBandit ==
    \/ Select /\ UNCHANGED winVars /\ UNCHANGED featVars /\ UNCHANGED onlineVars
    \/ Update /\ UNCHANGED winVars /\ UNCHANGED featVars /\ UNCHANGED onlineVars

SpecBandit == InitBandit /\ [][NextBandit]_vars

\* a bandit and callers that pass contexts of any length
InitDim ==
    /\ WinIdle
    /\ psds = ZeroPsd /\ features = NoFeatures /\ fpc = "done"
    /\ BanditConstructed
    /\ alpha \in Alphas
    /\ OnlineIdle

NextDim ==
    \/ SelectAny /\ UNCHANGED winVars /\ UNCHANGED featVars /\ UNCHANGED onlineVars
    \/ UpdateAny /\ UNCHANGED winVars /\ UNCHANGED featVars /\ UNCHANGED onlineVars
    \/ BanditStep /\ UNCHANGED winVars /\ UNCHANGED featVars /\ UNCHANGED onlineVars

SpecDim == InitDim /\ [][NextDim]_vars

\* online_loop from its first pass, and the classifier that publishes markers
InitLoop ==
    /\ WinIdle
    /\ psds = ZeroPsd /\ features = NoFeatures /\ fpc = "done"
    /\ BanditIdle
    /\ state_in = <<>> /\ n_pushed = 0 /\ consumed = <<>>
    /\ lpc = "pull_sample" /\ cycle = NoCycle
    /\ ConcIdle

NextLoop ==
    \/ PushMarker /\ UNCHANGED <<winVars, featVars, banditVars, concVars>>
    \/ PullSample /\ UNCHANGED <<winVars, featVars, banditVars, concVars>>
    \/ PullChunk /\ UNCHANGED <<winVars, featVars, banditVars, concVars>>
    \/ PullChunkRaises /\ UNCHANGED <<winVars, featVars, banditVars, concVars>>
    \/ ScoreSnippet /\ UNCHANGED <<winVars, featVars, banditVars, concVars>>
    \/ LoopUpdate /\ UNCHANGED <<winVars, featVars, concVars>>

SpecLoop == InitLoop /\ [][NextLoop]_vars

\* two loops, each about to call bandit_step once on the same bandit
InitConc ==
    /\ WinIdle
    /\ psds = ZeroPsd /\ features = NoFeatures /\ fpc = "done"
    /\ BanditConstructed
    /\ alpha \in Alphas
    /\ LoopIdle
    /\ lp = [i \in Loops |-> [NoStep EXCEPT !.pc = "select"]]

NextConc ==
    \E i \in Loops :
        \/ StepSelect(i) /\ UNCHANGED <<winVars, featVars, loopVars>>
        \/ ReadA(i) /\ UNCHANGED <<winVars, featVars, loopVars>>
        \/ WriteA(i) /\ UNCHANGED <<winVars, featVars, loopVars>>
        \/ ReadB(i) /\ UNCHANGED <<winVars, featVars, loopVars>>
        \/ WriteB(i) /\ UNCHANGED <<winVars, featVars, loopVars>>

SpecConc == InitConc /\ [][NextConc]_vars

----------------------------------------------------------------------------
(* Claims on the windowing (SpecWin) *)

Returned == pc \in {"main", "exit"}

\* C1: a readable recording of n_times samples (duration D = n_times sample
\* periods), cut with window W and overlap O < W, yields floor((D-W)/(W-O)) + 1
\* windows when D >= W and none otherwise
C1_WindowCount ==
    (Returned /\ file_ok /\ overlap_duration < window_duration) =>
        Len(processed_windows_data) =
            IF n_times >= window_duration
            THEN (n_times - window_duration) \div (window_duration - overlap_duration) + 1
            ELSE 0

\* what the code yields instead: one window per start below D - W, so the window
\* that ends with the last sample is left out
WindowCountOfCode ==
    (Returned /\ file_ok /\ overlap_duration < window_duration) =>
        /\ \A i \in 1..Len(processed_windows_data) :
              /\ processed_windows_data[i].t_start
                    = (i - 1) * (window_duration - overlap_duration)
              /\ processed_windows_data[i].t_end < n_times
        /\ Len(processed_windows_data) * (window_duration - overlap_duration)
              >= n_times - window_duration

\* C2: the stages of every emitted window [t_start, t_end) are the descriptions of
\* the annotations with onset < t_end and onset + duration > t_start, each once,
\* in ascending string order
C2_StagesOfWindow ==
    \A i \in 1..Len(processed_windows_data) :
        LET w == processed_windows_data[i]
        IN  /\ SeqToSet(w.stages) =
                  {annotations[k].description : k \in
                      {j \in 1..Len(annotations) :
                          /\ annotations[j].onset < w.t_end
                          /\ annotations[j].onset + annotations[j].duration > w.t_start}}
            /\ \A j \in 1..(Len(w.stages) - 1) : StrLess(w.stages[j], w.stages[j + 1])

\* a window with a stage, next to an annotation of another description that ends
\* exactly where the window starts or starts exactly where it ends
C2_Witness ==
    \E i \in 1..Len(processed_windows_data) : \E k \in 1..Len(annotations) :
        LET w == processed_windows_data[i]
        IN  /\ w.stages # <<>>
            /\ annotations[k].duration > 0
            /\ \/ annotations[k].onset + annotations[k].duration = w.t_start
               \/ annotations[k].onset = w.t_end
            /\ annotations[k].description \notin SeqToSet(w.stages)

\* C3: with overlap >= window nothing is processed or published and the run exits
\* with 1; the exit code is 0 exactly when a window was produced
C3_RejectedConfig ==
    /\ (file_ok /\ overlap_duration >= window_duration) =>
          /\ processed_windows_data = <<>>
          /\ window_starts = <<>>
          /\ features = NoFeatures
          /\ ~lsl_streamer
          /\ lsl_pushed = 0
          /\ pc = "exit" => exit_code = 1
    /\ pc = "exit" =>
          /\ exit_code \in {0, 1}
          /\ exit_code = 0 <=> processed_windows_data # <<>>

\* a rejected configuration that reached the exit, streaming requested
C3_Witness ==
    /\ pc = "exit"
    /\ file_ok
    /\ stream_lsl
    /\ overlap_duration >= window_duration
    /\ exit_code = 1

----------------------------------------------------------------------------
(* Claims on the spectral features (SpecFeat) *)

RelValues == [i \in 1..Len(BandNames) |-> features[RelKey[BandNames[i]]]]

AbsTotal == RatSumSeq([i \in 1..Len(BandNames) |-> features[AbsKey[BandNames[i]]]])

\* C4: the rel_<band> entries are present for every band exactly when the sum of
\* the absolute band powers is > 0, and then sum to 1; when the total is 0 none is
\* present and no entry is undefined
C4_RelativePowers ==
    fpc = "done" =>
        /\ AbsTotal.num > 0 =>
              /\ \A i \in 1..Len(BandNames) : RelKey[BandNames[i]] \in DOMAIN features
              /\ \A i \in 1..Len(BandNames) : ~RatIsUndefined(RelValues[i])
              /\ RatEq(RatSumSeq(RelValues), Rat(1, 1))
        /\ AbsTotal.num = 0 =>
              /\ \A i \in 1..Len(BandNames) : RelKey[BandNames[i]] \notin DOMAIN features
              /\ \A k \in DOMAIN features : ~RatIsUndefined(features[k])

\* relative powers of a spectrum with power in some bands only
C4_Witness ==
    /\ fpc = "done"
    /\ "rel_alpha" \in DOMAIN features
    /\ features["rel_alpha"].num > 0
    /\ features["abs_delta"].num = 0
    /\ features["rel_beta"].num > 0

\* the other case: a flat spectrum, with no relative power
C4_WitnessZero ==
    /\ fpc = "done"
    /\ AbsTotal.num = 0
    /\ DOMAIN features = {AbsKey[BandNames[i]] : i \in 1..Len(BandNames)}

FloorIfZero(q) == IF q.num = 0 THEN Rat(PowerFloor, 1) ELSE q

\* C5: both ratios are computed whatever the total power is, with 1e-9 in place of
\* a denominator band power of exactly 0, so no ratio is a division by zero
C5_RatiosAlwaysFloored ==
    fpc = "done" =>
        /\ "ratio_alpha_delta" \in DOMAIN features
        /\ "ratio_theta_beta" \in DOMAIN features
        /\ features["ratio_alpha_delta"]
              = RatDiv(features["abs_alpha"], FloorIfZero(features["abs_delta"]))
        /\ features["ratio_theta_beta"]
              = RatDiv(features["abs_theta"], FloorIfZero(features["abs_beta"]))

\* the part of C5 on division by zero alone: a ratio that is present is defined
C5_NoZeroDivision ==
    fpc = "done" =>
        \A k \in {"ratio_alpha_delta", "ratio_theta_beta"} \cap DOMAIN features :
            ~RatIsUndefined(features[k])

----------------------------------------------------------------------------
(* Claims on the bandit (SpecBandit) *)

\* the scores of the actions for the context of the last call, in the current state
ScoresOfCall == [a \in Actions |-> Score(A[a], b[a], alpha, call.ctx)]

\* C6: select returns the lowest-indexed action among those that maximise
\* theta_a.x + alpha * sqrt(x^T A_a^-1 x); with alpha = 0 that is the lowest-indexed
\* action maximising theta_a.x
C6_SelectArgmax ==
    call.kind = "select" =>
        LET p == ScoresOfCall
            sel == call.result
        IN  /\ sel \in Actions
            /\ \A a \in Actions :
                  /\ ScoreSign(p[a], p[sel]) <= 0
                  /\ a < sel => ScoreSign(p[a], p[sel]) < 0
            /\ alpha = 0 =>
                  \A a \in Actions :
                      /\ p[a].n * p[sel].d <= p[sel].n * p[a].d
                      /\ a < sel => p[a].n * p[sel].d < p[sel].n * p[a].d

\* a select, after an update, of a context for which a later action ties with the
\* returned one
C6_Witness ==
    /\ call.kind = "select"
    /\ updates # <<>>
    /\ A[call.result] # Eye
    /\ \E a \in Actions : a > call.result
                           /\ ScoreSign(ScoresOfCall[a], ScoresOfCall[call.result]) = 0

\* a select that returns an action other than the first
C6_WitnessLater ==
    /\ call.kind = "select"
    /\ call.result > 0
    /\ \A a \in Actions \ {call.result} :
          ScoreSign(ScoresOfCall[a], ScoresOfCall[call.result]) < 0

\* C7: update(x, i, r) sets A_i to A_i + x x^T and b_i to b_i + r x and leaves
\* A_j and b_j of every other action j as they were
C7_UpdateFrame ==
    [][Len(updates') = Len(updates) + 1 =>
          LET i == call'.action
              x == call'.ctx
              r == call'.reward
          IN  /\ call'.kind = "update"
              /\ A'[i] = MatAdd(A[i], Outer(x, x))
              /\ b'[i] = VecAdd(b[i], Scale(r, x))
              /\ \A j \in Actions \ {i} : A'[j] = A[j] /\ b'[j] = b[j]]_vars

\* an update of one action after an update of another, whose state it had to keep
C7_Witness ==
    /\ call.kind = "update"
    /\ Len(updates) >= 2
    /\ updates[1].action # call.action
    /\ A[updates[1].action] # Eye
    /\ b[updates[1].action] # Zeros
    /\ A[call.action] # Eye

\* C8: every A_a is the identity at construction and stays symmetric and positive
\* definite (leading minors > 0) under updates, so select never meets a singular
\* matrix
C8_PositiveDefinite ==
    /\ updates = <<>> => \A a \in Actions : A[a] = Eye
    /\ \A a \in Actions :
          /\ \A i \in Idx : \A j \in Idx : A[a][i][j] = A[a][j][i]
          /\ A[a][1][1] > 0
          /\ Det(A[a]) > 0
    /\ call.kind = "select" => call.result # LinAlgError

\* a select on a matrix with off-diagonal entries, after two updates
C8_Witness ==
    /\ call.kind = "select"
    /\ Len(updates) >= 2
    /\ \E a \in Actions : A[a][1][2] # 0 /\ Det(A[a]) > 1

FirstUpdateOfScenario == [ctx |-> <<1, 0>>, action |-> 0, reward |-> 1]

\* C9: with 2 actions, 2 features and alpha = 1, after update([1,0], 0, 1) alone
\* select([1,0]) returns action 0 and action 1 still has the identity matrix and
\* the zero vector
C9_Scenario ==
    (alpha = 1 /\ updates = <<FirstUpdateOfScenario>>) =>
        /\ A[1] = Eye
        /\ b[1] = Zeros
        /\ (call.kind = "select" /\ call.ctx = <<1, 0>>) => call.result = 0

C9_Witness ==
    /\ n_actions = 2
    /\ n_features = 2
    /\ alpha = 1
    /\ updates = <<FirstUpdateOfScenario>>
    /\ call.kind = "select"
    /\ call.ctx = <<1, 0>>
    /\ call.result = 0

\* C10: select changes no A_a and no b_a, and a select of the same context right
\* after a select returns the same action
C10_SelectPure ==
    [][call'.kind = "select" =>
          /\ A' = A
          /\ b' = b
          /\ call'.repeated => call'.result = call.result]_vars

\* a select repeated with the same context, on a state that updates have changed
C10_Witness ==
    /\ call.kind = "select"
    /\ call.repeated
    /\ updates # <<>>
    /\ call.result > 0

----------------------------------------------------------------------------
(* Claims on the order of updates (SpecBandit) *)

\* the sum of x x^T, and of reward * x, over the calls of us addressed to action a
RECURSIVE SumOuter(_, _)
SumOuter(us, a) ==
    IF us = <<>> THEN [i \in Idx |-> [j \in Idx |-> 0]]
    ELSE MatAdd(IF Head(us).action = a THEN Outer(Head(us).ctx, Head(us).ctx)
                ELSE [i \in Idx |-> [j \in Idx |-> 0]],
                SumOuter(Tail(us), a))

RECURSIVE SumRewarded(_, _)
SumRewarded(us, a) ==
    IF us = <<>> THEN Zeros
    ELSE VecAdd(IF Head(us).action = a THEN Scale(Head(us).reward, Head(us).ctx)
                ELSE Zeros,
                SumRewarded(Tail(us), a))

\* the update calls made so far, in the order p
Reordered(p) == [i \in 1..Len(updates) |-> updates[p[i]]]

\* C16: the updates made so far, applied from the initial state in any order, give
\* the A_a and b_a of the current state, which are I + sum of x x^T and the sum of
\* reward * x over the updates of action a; a select returns the same in every order
C16_UpdatesCommute ==
    /\ LET finals == {Replay(Reordered(p), [a \in Actions |-> Eye], [a \in Actions |-> Zeros]) :
                          p \in Permutations(1..Len(updates))}
       IN  /\ finals = {<<A, b>>}
           /\ \A st \in finals :
                 call.kind = "select" =>
                    call.result = SelectResult(st[1], st[2], alpha, call.ctx)
    /\ \A a \in Actions :
          /\ A[a] = MatAdd(Eye, SumOuter(updates, a))
          /\ b[a] = SumRewarded(updates, a)

\* two rewarded updates of one action with different contexts, then a select
C16_Witness ==
    /\ Len(updates) >= 2
    /\ updates[1].action = updates[2].action
    /\ updates[1].ctx # updates[2].ctx
    /\ updates[1].reward = 1 /\ updates[2].reward = 1
    /\ updates[1].ctx # Zeros /\ updates[2].ctx # Zeros
    /\ call.kind = "select"

----------------------------------------------------------------------------
(* Claims on contexts of the wrong length (SpecDim) *)

\* C12: a call of select, update or bandit_step with a context whose length is not
\* n_features ends in an error, and no such context is among the updates absorbed
\* into A and b
C12_MismatchRejected ==
    /\ (call.kind \in {"select", "update", "bandit_step"} /\ Len(call.ctx) # n_features)
          => call.result = ShapeError
    /\ \A i \in 1..Len(updates) : Len(updates[i].ctx) = n_features

\* select and bandit_step, taken alone, do refuse every context of the wrong length
C12_SelectRejects ==
    (call.kind \in {"select", "bandit_step"} /\ Len(call.ctx) # n_features)
        => call.result = ShapeError

----------------------------------------------------------------------------
(* Claims on the online loop (SpecLoop) *)

\* the pass of the loop that has just made its update
CycleUpdated == lpc = "pull_sample" /\ cycle.updates = 1

\* C11: the update of a pass is made for the action of the marker consumed in that
\* pass, with the features of that marker's window as its context
C11_UpdateAttributed ==
    CycleUpdated => (call.action = cycle.marker.action /\ call.ctx = cycle.marker.features)

\* C13: a pass that pulled fewer fresh samples than the snippet length takes no
\* score from eeg_buf and makes no update
C13_UnderrunAbandoned ==
    cycle.pulled < SnippetLen => (cycle.scores = 0 /\ cycle.updates = 0)

\* the last part of C13: the loop is never left, it goes on to the next marker
C13_LoopGoesOn == lpc # "raised"

\* the ids 1..n in order
Ascending(ids, first) == \A i \in 1..Len(ids) : ids[i] = first + i - 1

\* C14: markers are consumed in arrival order, each once; a pass runs one marker
\* consumption, then one pull of the snippet, then one scoring, then one update,
\* with reward = 1 - prob_err in [0, 1]; there is at most one update for a marker
C14_CycleOrder ==
    /\ Ascending(consumed, 1)
    /\ Ascending([i \in 1..Len(state_in) |-> state_in[i].id], Len(consumed) + 1)
    /\ Len(consumed) + Len(state_in) = n_pushed
    /\ Len(updates) <= Len(consumed)
    /\ cycle.pulls > 0 => (Len(consumed) > 0 /\ cycle.marker.id = consumed[Len(consumed)])
    /\ lpc = "pull_chunk" => (cycle.pulls = 0 /\ cycle.scores = 0 /\ cycle.updates = 0)
    /\ lpc = "score" => (cycle.pulls = 1 /\ cycle.scores = 0 /\ cycle.updates = 0)
    /\ lpc = "update" => (cycle.pulls = 1 /\ cycle.scores = 1 /\ cycle.updates = 0)
    /\ lpc = "pull_sample" =>
          \/ cycle = NoCycle /\ consumed = <<>> /\ updates = <<>>
          \/ /\ cycle.pulls = 1 /\ cycle.scores = 1 /\ cycle.updates = 1
             /\ Len(updates) = Len(consumed)
             /\ call.kind = "update" /\ call.reward = cycle.reward
    /\ cycle.scores = 1 =>
          (cycle.reward = 1 - cycle.prob_err /\ cycle.reward >= 0 /\ cycle.reward <= 1)

\* two markers were consumed in their order of arrival, and both passes have made
\* their update
C14_Witness ==
    /\ CycleUpdated
    /\ consumed = <<1, 2>>
    /\ Len(updates) = 2
    /\ updates[1].reward = 1 /\ updates[2].reward = 0

----------------------------------------------------------------------------
(* Claims on two loops driving one bandit (SpecConc) *)

\* from a loop's select to the end of its update, nobody else writes the A and b
\* of the action it selected
SelectUpdateAtomic ==
    \A i \in Loops :
        /\ lp[i].pc \in {"readA", "writeA"} => A[lp[i].action] = lp[i].seenA
        /\ lp[i].pc \in {"readA", "writeA", "readB", "writeB"} => b[lp[i].action] = lp[i].seenb

\* once both loops have returned, A and b hold every update that was made
NoLostUpdate ==
    (\A i \in Loops : lp[i].pc = "done") =>
        \A a \in Actions :
            /\ A[a] = MatAdd(Eye, SumOuter(updates, a))
            /\ b[a] = SumRewarded(updates, a)

\* C15: a loop's select and its update are atomic with respect to the other loop,
\* and after both loops have finished A_a is I plus the sum of x x^T and b_a the
\* sum of reward * x over the updates of action a
C15_AtomicSteps == SelectUpdateAtomic /\ NoLostUpdate

=============================================================================
